---------------------------- MODULE Spec2Model ----------------------------
(***************************************************************************)
(* A model of subar (src/src/main.rs): three pollers (media player,        *)
(* volume, weather) that each publish a display string into a              *)
(* tokio::sync::watch channel, a render loop that reads the channels on a  *)
(* fixed tick and streams one record per tick, and the now-playing         *)
(* formatter get_now_playing.                                              *)
(*                                                                         *)
(* A Rust String is modelled as the sequence of its code points.  A code   *)
(* point is a TLA+ string: an ASCII character stands for itself, any other *)
(* code point is written "U+XXXX".                                         *)
(***************************************************************************)
EXTENDS Integers, Sequences, FiniteSets, TLC

(***************************************************************************)
(* Bounds of the model.                                                    *)
(***************************************************************************)
\* Lines of standard output the model records (the stream's prefix).
MaxLines == 4
\* Lines of standard error the model records (the stream's prefix).
MaxErrLines == 1
\* Latest reading of the wall clock, in seconds after the first.
MaxClock == 1
\* Longest tail, in grapheme clusters, appended to a generated title's padding.
MaxTail == 2
\* Longest artist list of a generated track.
MaxArtists == 3
\* The longest elapsed time of a generated track, in seconds: 100 minutes.
MaxSeconds == 6000
\* The publishes per channel a run with numbered publishes is followed for.
MaxPublishes == 2

(***************************************************************************)
(* Program constants.                                                      *)
(***************************************************************************)
NOW_PLAYING_MAX_LEN == 70

\* "🎵 ???"
MPD_FALLBACK == <<"U+1F3B5", " ", "?", "?", "?">>
\* "🔊 ???"
VOL_FALLBACK == <<"U+1F50A", " ", "?", "?", "?">>
\* "🛰️ ???"
WEATHER_FALLBACK == <<"U+1F6F0", "U+FE0F", " ", "?", "?", "?">>

(***************************************************************************)
(* Code points: UTF-8 width, White_Space, Grapheme_Cluster_Break.          *)
(***************************************************************************)
\* Bytes of the code point's UTF-8 encoding (String::len counts bytes).
Utf8Len(c) ==
    IF c \in {"U+1F3B5", "U+1F50A", "U+1F507", "U+1F6F0", "U+1F5D3", "U+1F55B"} THEN 4
    ELSE IF c \in {"U+2026", "U+FE0F"} THEN 3
    ELSE IF c \in {"U+00B0", "U+00E9", "U+0301", "U+0600"} THEN 2
    ELSE 1

\* char::is_whitespace, as str::trim and str::trim_end use it.
IsWhitespace(c) == c \in {" ", "\n"}

\* Grapheme_Cluster_Break = Extend (combining acute, variation selector 16).
IsExtend(c) == c \in {"U+0301", "U+FE0F"}

\* Grapheme_Cluster_Break = Prepend (ARABIC NUMBER SIGN).
IsPrepend(c) == c \in {"U+0600"}

\* Grapheme_Cluster_Break = Control, CR or LF.
IsControl(c) == c \in {"\n"}

RECURSIVE BytesUpTo(_, _)
BytesUpTo(s, i) == IF i = 0 THEN 0 ELSE BytesUpTo(s, i - 1) + Utf8Len(s[i])

\* String::len: the length in bytes.
ByteLen(s) == BytesUpTo(s, Len(s))

\* Extended grapheme clusters (UAX 29): no break before Extend (GB9) nor
\* after Prepend (GB9b), always a break next to a control (GB4, GB5).
IsClusterStart(s, i) ==
    \/ i = 1
    \/ IsControl(s[i - 1])
    \/ IsControl(s[i])
    \/ ~(IsExtend(s[i]) \/ IsPrepend(s[i - 1]))

ClusterStarts(s) == {i \in 1..Len(s) : IsClusterStart(s, i)}

\* s.graphemes(true).count()
ClusterCount(s) == Cardinality(ClusterStarts(s))

\* s.grapheme_indices(true).nth(n): the offset (here: the number of code
\* points before it) of cluster number n, counted from 0; -1 stands for None.
RECURSIVE NthFrom(_, _, _)
NthFrom(s, i, n) ==
    IF i > Len(s) THEN -1
    ELSE IF IsClusterStart(s, i)
         THEN IF n = 0 THEN i - 1 ELSE NthFrom(s, i + 1, n - 1)
         ELSE NthFrom(s, i + 1, n)

GraphemeNth(s, n) == NthFrom(s, 1, n)

\* str::trim_end: strips trailing white space, code point by code point.
RECURSIVE TrimEnd(_)
TrimEnd(s) ==
    IF s # <<>> /\ IsWhitespace(s[Len(s)]) THEN TrimEnd(SubSeq(s, 1, Len(s) - 1)) ELSE s

\* str::trim: strips leading and trailing white space.
RECURSIVE TrimStart(_)
TrimStart(s) == IF s # <<>> /\ IsWhitespace(s[1]) THEN TrimStart(Tail(s)) ELSE s

Trim(s) == TrimStart(TrimEnd(s))

\* [T]::join(sep) on a list of strings.
RECURSIVE Join(_, _)
Join(list, sep) ==
    IF list = <<>> THEN <<>>
    ELSE IF Len(list) = 1 THEN list[1]
    ELSE list[1] \o sep \o Join(Tail(list), sep)

\* str::contains for a pattern given as a code point sequence.
Contains(s, pat) ==
    \E i \in 0..(Len(s) - Len(pat)) : SubSeq(s, i + 1, i + Len(pat)) = pat

(***************************************************************************)
(* format_duration and the "{:02}" format.                                 *)
(***************************************************************************)
Digit(d) == <<"0", "1", "2", "3", "4", "5", "6", "7", "8", "9">>[d + 1]

RECURSIVE Decimal(_)
Decimal(n) == IF n < 10 THEN <<Digit(n)>> ELSE Decimal(n \div 10) \o <<Digit(n % 10)>>

\* format!("{:02}", n): at least two digits, zero padded.
Pad02(n) == IF n < 10 THEN <<"0">> \o Decimal(n) ELSE Decimal(n)

\* A faulty variant: the minutes wrap at the hour.
format_durationWrapsHours(duration) ==
    LET total_seconds == duration \div 1000
        minutes == (total_seconds \div 60) % 60
        seconds == total_seconds % 60
    IN  Pad02(minutes) \o <<":">> \o Pad02(seconds)

\* A Duration is modelled by its length in milliseconds; as_secs truncates.
format_duration(duration) ==
    LET total_seconds == duration \div 1000
        minutes == total_seconds \div 60
        seconds == total_seconds % 60
    IN  Pad02(minutes) \o <<":">> \o Pad02(seconds)

(***************************************************************************)
(* get_now_playing.  The adapter's answers are a snapshot:                 *)
(*   cur      "Err" (the CurrentSong command failed), "None" (no current   *)
(*            song) or "Some"                                              *)
(*   artists, album_artists   lists of names                               *)
(*   title    <<>> (no title tag) or <<t>>                                 *)
(*   status   "Err" (the Status command failed) or "Ok"                    *)
(*   elapsed, duration   <<>> (None) or <<milliseconds>>                   *)
(***************************************************************************)
Snapshot(cur, artists, album_artists, title, status, elapsed, duration) ==
    [cur |-> cur, artists |-> artists, album_artists |-> album_artists,
     title |-> title, status |-> status, elapsed |-> elapsed, duration |-> duration]

\* "???", the sentinel of a missing artist or title.
Unknown == <<"?", "?", "?">>

\* A faulty variant: the album artists are used whenever there are any.
SelectArtistsPreferAlbum(snap) ==
    IF snap.album_artists # <<>> THEN snap.album_artists ELSE snap.artists

\* let artists = if artists.is_empty() && !album_artist.is_empty() { .. }
SelectArtists(snap) ==
    IF snap.artists = <<>> /\ snap.album_artists # <<>>
    THEN snap.album_artists
    ELSE snap.artists

\* let title = if let Some(title) = current.song.title() { title } else { "???" }
TitleOf(snap) == IF snap.title # <<>> THEN snap.title[1] ELSE Unknown

\* A faulty variant: three or more names get an ampersand before the last one.
ArtistTextAmpersandLast(artists) ==
    CASE Len(artists) = 0 -> Unknown
      [] Len(artists) = 1 -> artists[1]
      [] OTHER -> Join(SubSeq(artists, 1, Len(artists) - 1), <<",", " ">>)
                  \o <<" ", "&", " ">> \o artists[Len(artists)]

\* let artist = match artists.len() { 0 => .., 1 => .., 2 => .., _ => .. }
ArtistText(artists) ==
    CASE Len(artists) = 0 -> Unknown
      [] Len(artists) = 1 -> artists[1]
      [] Len(artists) = 2 -> Join(artists, <<" ", "&", " ">>)
      [] OTHER -> Join(artists, <<",", " ">>)

\* format!("{artist} - {title}")
Compose(artist, title) == artist \o <<" ", "-", " ">> \o title

\* if playing.len() > NOW_PLAYING_MAX_LEN { .. truncate .. push('…') }
Truncate(playing) ==
    IF ByteLen(playing) > NOW_PLAYING_MAX_LEN
    THEN LET offset == GraphemeNth(playing, NOW_PLAYING_MAX_LEN)
         IN  IF offset >= 0
             THEN TrimEnd(SubSeq(playing, 1, offset)) \o <<"U+2026">>
             ELSE playing
    ELSE playing

\* status.duration.unwrap() panics when elapsed is Some and duration is None.
PlaybackPanics(snap) == snap.elapsed # <<>> /\ snap.duration = <<>>

\* let playback_time = if let Some(elapsed) = status.elapsed { .. } else { "00:00" }
PlaybackTime(snap) ==
    IF snap.elapsed # <<>>
    THEN format_duration(snap.elapsed[1]) \o <<"/">> \o format_duration(snap.duration[1])
    ELSE <<"0", "0", ":", "0", "0">>

\* format!("🎵 {playing} ({playback_time})")
FinalText(playing, playback_time) ==
    <<"U+1F3B5", " ">> \o playing \o <<" ", "(">> \o playback_time \o <<")">>

\* The result of get_now_playing: Ok(text), Err, or a panic of the task.
get_now_playing(snap) ==
    IF snap.cur = "Err" THEN [tag |-> "Err", text |-> <<>>]
    ELSE IF snap.cur = "None" THEN [tag |-> "Ok", text |-> MPD_FALLBACK]
    ELSE IF snap.status = "Err" THEN [tag |-> "Err", text |-> <<>>]
    ELSE IF PlaybackPanics(snap) THEN [tag |-> "Panic", text |-> <<>>]
    ELSE [tag |-> "Ok",
          text |-> FinalText(Truncate(Compose(ArtistText(SelectArtists(snap)), TitleOf(snap))),
                             PlaybackTime(snap))]

(***************************************************************************)
(* The concurrent program: main, Taskmaster and the three poller tasks.    *)
(***************************************************************************)
VARIABLES
    enabled,      \* Sources not disabled by --no-mpd, --no-vol, --no-bom
    chan,         \* chan[s]: the value held by Source s's watch channel
    pc,           \* pc[s]: where Source s's poller task is
    song,         \* the media player's state as of the poller's last query
    conn,         \* mpd_task holds `client`, a connection it has established
    rpc,          \* where main is: "startup", "tick" or "sleep"
    full_text,    \* status.full_text
    stdout,       \* the lines written to standard output (a prefix)
    stderr,       \* the lines written to standard error (a prefix)
    sent,         \* history: <<v>> for the last value passed to tx.send, else <<>>
    last,         \* history: how the last adapter invocation of s ended
    allFailed,    \* history: every adapter invocation of s so far failed
    count,        \* history: the publishes to s's channel so far, where numbered
    seen          \* history: the publish number main's last read of s returned

vars == <<enabled, chan, pc, song, conn, rpc, full_text,
          stdout, stderr, sent, last, allFailed, count, seen>>

Sources == {"mpd", "vol", "bom"}

\* The order in which main pushes the Taskmasters.
SourceOrder == <<"mpd", "vol", "bom">>

\* The fallback each Taskmaster is created with.
Fallback(s) ==
    CASE s = "mpd" -> MPD_FALLBACK
      [] s = "vol" -> VOL_FALLBACK
      [] s = "bom" -> WEATHER_FALLBACK

\* A faulty variant: the flags are ignored and every Source is rendered.
TasksIgnoringFlags(en) == SourceOrder

\* let mut tasks = Vec::new(); .. tasks.push(..) under the three flags.
Tasks(en) == SelectSeq(SourceOrder, LAMBDA s : s \in en)

\* The first step of each poller task.
FirstPc(s) == IF s = "mpd" THEN "connect" ELSE "run"

\* A line is added to a recorded stream while the record has room.
Emit(stream, line, max) == IF Len(stream) < max THEN Append(stream, line) ELSE stream

\* A faulty variant: a publish does not replace a value published earlier.
SendKeepsFirst(ch, s, v) == IF ch[s] = Fallback(s) THEN [ch EXCEPT ![s] = v] ELSE ch

\* tx.send(v) with a Receiver alive: the value replaces the channel's
\* current value.
Send(ch, s, v) == [ch EXCEPT ![s] = v]

\* A faulty variant: main drops the Taskmasters, and their Receivers with
\* them, once the header is written.
ReceiversDroppedAfterStartup == IF rpc = "startup" THEN enabled ELSE {}

\* The Sources whose Receiver is alive: `tasks` in main holds the Taskmaster
\* of every enabled Source, each with its rx, and main never leaves its loop.
Receivers == enabled

\* A faulty variant: a channel whose task has ended reads as the value it was
\* created with.
StatusOfEndedTaskIsInitial(s) == IF pc[s] = "done" THEN Fallback(s) ELSE chan[s]

\* Taskmaster::status: rx.borrow(), the channel's current value.
Status(s) == chan[s]

\* What a poller's step records about the invocation that just ended.
Note(s, outcome, listed) ==
    /\ last' = [last EXCEPT ![s] = outcome]
    /\ allFailed' = [allFailed EXCEPT ![s] = allFailed[s] /\ listed]

\* A step of Source s's poller that publishes v and then sleeps or goes on:
\* tx.send(v)?, which returns Err and so ends the task when no Receiver is
\* alive.
Publish(s, v, next) ==
    IF s \in Receivers
    THEN /\ chan' = Send(chan, s, v)
         /\ sent' = [sent EXCEPT ![s] = <<v>>]
         /\ pc' = [pc EXCEPT ![s] = next]
    ELSE /\ pc' = [pc EXCEPT ![s] = "done"]
         /\ UNCHANGED <<chan, sent>>

\* A faulty variant: a task that ends takes every other poller task down with it.
FinishAbortsAll(s) ==
    /\ pc' = [t \in Sources |-> IF pc[t] = "off" THEN "off" ELSE "done"]
    /\ UNCHANGED <<chan, sent>>

\* A faulty variant: a task that ends leaves its channel with the value the
\* channel was created with.
FinishClosesChannel(s) ==
    /\ pc' = [pc EXCEPT ![s] = "done"]
    /\ chan' = [chan EXCEPT ![s] = Fallback(s)]
    /\ UNCHANGED sent

\* A step that ends the task (an Err returned through `?`, or a panic).
Finish(s) ==
    /\ pc' = [pc EXCEPT ![s] = "done"]
    /\ UNCHANGED <<chan, sent>>

(***************************************************************************)
(* weather_task                                                            *)
(***************************************************************************)
\* What bom-buddy may write on success, as text.
WeatherTexts == {<<"2", "1", "U+00B0", "C">>}

\* A faulty variant: the exit status is not looked at.
WeatherValueAnyExit(success, text) == text

\* let weather = if cmd.status.success() { stdout } else { WEATHER_FALLBACK }
WeatherValue(success, text) == IF success THEN text ELSE WEATHER_FALLBACK

WeatherRun ==
    /\ pc["bom"] = "run"
    /\ \/ \* Command::output() failed
          /\ Publish("bom", WEATHER_FALLBACK, "sleep")
          /\ Note("bom", "transport", TRUE)
       \/ \* the command exited with a failure status, whatever it wrote
          \E text \in WeatherTexts :
            /\ Publish("bom", WeatherValue(FALSE, text), "sleep")
            /\ Note("bom", "transport", TRUE)
       \/ \* success, stdout is not UTF-8: String::from_utf8(..)? returns Err
          /\ Finish("bom")
          /\ Note("bom", "decode", FALSE)
       \/ \* success, stdout is UTF-8
          \E text \in WeatherTexts :
            /\ Publish("bom", WeatherValue(TRUE, text), "sleep")
            /\ Note("bom", "ok", FALSE)
    /\ UNCHANGED <<enabled, song, conn, rpc, full_text, stdout, stderr>>

WeatherWake ==
    /\ pc["bom"] = "sleep"
    /\ pc' = [pc EXCEPT !["bom"] = "run"]
    /\ UNCHANGED <<enabled, chan, song, conn, rpc, full_text,
                   stdout, stderr, sent, last, allFailed>>

(***************************************************************************)
(* volume_task                                                             *)
(***************************************************************************)
\* What wpctl get-volume may write on success, as text.
VolumeOutputs ==
    { <<"V", "o", "l", "u", "m", "e", ":", " ", "0", ".", "4", "5", "\n">>,
      <<"V", "o", "l", "u", "m", "e", ":", " ", "0", ".", "4", "5", " ",
        "[", "M", "U", "T", "E", "D", "]", "\n">>,
      <<"\n">> }

\* &output.trim()[10..12] panics when the trimmed output has under 12 bytes.
VolumePanics(output) == ByteLen(Trim(output)) < 12

\* let icon = ..; let volume = &output.trim()[10..12]; format!("{} {}%", ..)
VolumeStatus(output) ==
    LET icon == IF Contains(output, <<"M", "U", "T", "E", "D">>)
                THEN "U+1F507" ELSE "U+1F50A"
        volume == SubSeq(Trim(output), 11, 12)
    IN  <<icon, " ">> \o volume \o <<"%">>

VolumeRun ==
    /\ pc["vol"] = "run"
    /\ \/ \* Command::output() failed
          /\ Publish("vol", VOL_FALLBACK, "sleep")
          /\ Note("vol", "transport", TRUE)
       \/ \* the command exited with a failure status
          /\ Publish("vol", VOL_FALLBACK, "sleep")
          /\ Note("vol", "transport", TRUE)
       \/ \* success, stdout is not UTF-8: String::from_utf8(..)? returns Err
          /\ Finish("vol")
          /\ Note("vol", "decode", FALSE)
       \/ \* success, stdout is UTF-8
          \E output \in VolumeOutputs :
            IF VolumePanics(output)
            THEN Finish("vol") /\ Note("vol", "decode", FALSE)
            ELSE Publish("vol", VolumeStatus(output), "sleep") /\ Note("vol", "ok", FALSE)
    /\ UNCHANGED <<enabled, song, conn, rpc, full_text, stdout, stderr>>

VolumeWake ==
    /\ pc["vol"] = "sleep"
    /\ pc' = [pc EXCEPT !["vol"] = "run"]
    /\ UNCHANGED <<enabled, chan, song, conn, rpc, full_text,
                   stdout, stderr, sent, last, allFailed>>

(***************************************************************************)
(* mpd_task                                                                *)
(***************************************************************************)
\* "Couldn't connect to {host}. {err}", written by eprintln!.
ConnectError == "Couldn't connect"

\* A name and a title of the tracks the media player of the model plays.
NameA == <<"A", "b">>
TitleT == <<"T", "i">>

\* The answers the media player of the model gives to a query.
Snapshots ==
    { Snapshot("Err", <<>>, <<>>, <<>>, "Ok", <<>>, <<>>),
      Snapshot("None", <<>>, <<>>, <<>>, "Ok", <<>>, <<>>),
      Snapshot("Some", <<NameA>>, <<>>, <<TitleT>>, "Ok", <<65000>>, <<3661000>>),
      Snapshot("Some", <<NameA>>, <<>>, <<TitleT>>, "Ok", <<65000>>, <<>>) }

\* The media player with nothing to play.
Stopped == Snapshot("None", <<>>, <<>>, <<>>, "Ok", <<>>, <<>>)

MpdConnect ==
    /\ pc["mpd"] = "connect"
    /\ \/ \* UnixStream::connect or TcpStream::connect failed
          /\ stderr' = Emit(stderr, ConnectError, MaxErrLines)
          /\ pc' = [pc EXCEPT !["mpd"] = "retry"]
          /\ conn' = FALSE
          /\ Note("mpd", "transport", TRUE)
       \/ \* Client::connect failed
          /\ stderr' = Emit(stderr, ConnectError, MaxErrLines)
          /\ pc' = [pc EXCEPT !["mpd"] = "retry"]
          /\ conn' = FALSE
          /\ Note("mpd", "transport", TRUE)
       \/ \* connected
          /\ pc' = [pc EXCEPT !["mpd"] = "query"]
          /\ conn' = TRUE
          /\ allFailed' = [allFailed EXCEPT !["mpd"] = FALSE]
          /\ UNCHANGED <<stderr, last>>
    /\ UNCHANGED <<enabled, chan, song, rpc, full_text, stdout, sent>>

\* A faulty variant: after a failed query the poller publishes the fallback
\* and queries again on the connection it holds.
MpdQueryRetriesInPlace(snapshots) ==
    /\ pc["mpd"] = "query"
    /\ \E snap \in snapshots :
         LET r == get_now_playing(snap)
         IN  /\ song' = snap
             /\ CASE r.tag = "Err" ->
                       /\ Publish("mpd", MPD_FALLBACK, "sleep")
                       /\ conn' = conn
                       /\ Note("mpd", "transport", FALSE)
                  [] r.tag = "Panic" ->
                       /\ Finish("mpd")
                       /\ conn' = FALSE
                       /\ Note("mpd", "decode", FALSE)
                  [] r.tag = "Ok" ->
                       /\ Publish("mpd", r.text, "sleep")
                       /\ conn' = conn
                       /\ Note("mpd", "ok", FALSE)
    /\ UNCHANGED <<enabled, rpc, full_text, stdout, stderr>>

\* The inner loop's step: one call of get_now_playing on the connection,
\* which finds the media player in one of the given states.  `client` lives
\* in the outer loop's body: the break, like the panic, drops it.
MpdQuery(snapshots) ==
    /\ pc["mpd"] = "query"
    /\ \E snap \in snapshots :
         LET r == get_now_playing(snap)
         IN  /\ song' = snap
             /\ CASE r.tag = "Err" ->
                       /\ Publish("mpd", MPD_FALLBACK, "connect")
                       /\ conn' = FALSE
                       /\ Note("mpd", "transport", FALSE)
                  [] r.tag = "Panic" ->
                       /\ Finish("mpd")
                       /\ conn' = FALSE
                       /\ Note("mpd", "decode", FALSE)
                  [] r.tag = "Ok" ->
                       /\ Publish("mpd", r.text, "sleep")
                       /\ conn' = conn
                       /\ Note("mpd", "ok", FALSE)
    /\ UNCHANGED <<enabled, rpc, full_text, stdout, stderr>>

MpdWake ==
    /\ \/ pc["mpd"] = "retry" /\ pc' = [pc EXCEPT !["mpd"] = "connect"]
       \/ pc["mpd"] = "sleep" /\ pc' = [pc EXCEPT !["mpd"] = "query"]
    /\ UNCHANGED <<enabled, chan, song, conn, rpc, full_text,
                   stdout, stderr, sent, last, allFailed>>

(***************************************************************************)
(* main: the header, the opening bracket and the render loop.              *)
(***************************************************************************)
\* The line println!("{}", serde_json::to_string(&header).unwrap()) writes.
\* The recorded stream tells lines apart by the println! that wrote them.
HeaderLine == [kind |-> "header"]

\* The clock reading n as %T; the model's clock stays within one day.
TimeText(n) ==
    Pad02(n \div 3600) \o <<":">> \o Pad02((n \div 60) % 60) \o <<":">> \o Pad02(n % 60)

\* now.format("🗓️ %a %b %d 🕛 %T")
DateTime(n) ==
    <<"U+1F5D3", "U+FE0F", " ", "S", "u", "n", " ", "N", "o", "v", " ", "0", "1", " ",
      "U+1F55B", " ">> \o TimeText(n)

\* for task in &tasks { push_str(&task.status()); push(' ') }
RECURSIVE PushAll(_, _)
PushAll(text, tasks) ==
    IF tasks = <<>> THEN text
    ELSE PushAll(text \o Status(Head(tasks)) \o <<" ">>, Tail(tasks))

\* The line println!("[") writes.
OpenBracket == [kind |-> "["]

\* The line println!("[{}],", ..) writes; its text is status.full_text as it
\* stands until the clear that follows the sleep.
RecordLine == [kind |-> "record"]

\* println!(header); println!("["); let mut status = StatusLine::default();
RenderStartup ==
    /\ rpc = "startup"
    /\ stdout' = Emit(Emit(stdout, HeaderLine, MaxLines), OpenBracket, MaxLines)
    /\ full_text' = <<>>
    /\ rpc' = "tick"
    /\ UNCHANGED <<enabled, chan, pc, song, conn, stderr,
                   sent, last, allFailed>>

\* A faulty variant: the tick waits until every enabled poller has just published.
RenderTickAwaitsPollers ==
    /\ rpc = "tick"
    /\ \A s \in enabled : pc[s] = "sleep"
    /\ \E now \in 0..MaxClock :
         full_text' = PushAll(full_text, Tasks(enabled)) \o DateTime(now)
    /\ stdout' = Emit(stdout, RecordLine, MaxLines)
    /\ rpc' = "sleep"
    /\ UNCHANGED <<enabled, chan, pc, song, conn, stderr, sent, last, allFailed>>

\* One pass of the loop body up to the sleep.
RenderTick ==
    /\ rpc = "tick"
    /\ \E now \in 0..MaxClock :
         full_text' = PushAll(full_text, Tasks(enabled)) \o DateTime(now)
    /\ stdout' = Emit(stdout, RecordLine, MaxLines)
    /\ rpc' = "sleep"
    /\ UNCHANGED <<enabled, chan, pc, song, conn, stderr,
                   sent, last, allFailed>>

\* A faulty variant: after the sleep main starts over from the header.
RenderWakeRestarts ==
    /\ rpc = "sleep"
    /\ full_text' = <<>>
    /\ rpc' = "startup"
    /\ UNCHANGED <<enabled, chan, pc, song, conn, stdout, stderr, sent, last, allFailed>>

\* A faulty variant: the text is not cleared before the loop goes round.
RenderWakeKeepsText ==
    /\ rpc = "sleep"
    /\ full_text' = full_text
    /\ rpc' = "tick"
    /\ UNCHANGED <<enabled, chan, pc, song, conn, stdout, stderr, sent, last, allFailed>>

\* The sleep ends: status.full_text.clear(), and the loop goes round.
RenderWake ==
    /\ rpc = "sleep"
    /\ full_text' = <<>>
    /\ rpc' = "tick"
    /\ UNCHANGED <<enabled, chan, pc, song, conn, stdout, stderr,
                   sent, last, allFailed>>

(***************************************************************************)
(* The specification.                                                      *)
(***************************************************************************)
\* The state when main reaches its first sleep: the enabled tasks spawned,
\* each channel holding the fallback it was created with.
Startup ==
    /\ enabled \in SUBSET Sources
    /\ chan = [s \in Sources |-> Fallback(s)]
    /\ pc = [s \in Sources |-> IF s \in enabled THEN FirstPc(s) ELSE "off"]
    /\ conn = FALSE
    /\ rpc = "startup"
    /\ full_text = <<>>
    /\ stdout = <<>>
    /\ stderr = <<>>
    /\ sent = [s \in Sources |-> <<>>]
    /\ last = [s \in Sources |-> "none"]
    /\ allFailed = [s \in Sources |-> TRUE]
    /\ count = [s \in Sources |-> 0]
    /\ seen = [s \in Sources |-> 0]

Init == Startup /\ song = Stopped

WeatherTask == WeatherRun \/ WeatherWake
VolumeTask == VolumeRun \/ VolumeWake
MpdTask == MpdConnect \/ MpdQuery(Snapshots) \/ MpdWake
RenderLoop == RenderStartup \/ RenderTick \/ RenderWake

\* The publishes are not numbered.
Unnumbered == UNCHANGED <<count, seen>>

Next ==
    \/ WeatherRun /\ Unnumbered
    \/ WeatherWake /\ Unnumbered
    \/ VolumeRun /\ Unnumbered
    \/ VolumeWake /\ Unnumbered
    \/ MpdConnect /\ Unnumbered
    \/ MpdQuery(Snapshots) /\ Unnumbered
    \/ MpdWake /\ Unnumbered
    \/ RenderStartup /\ Unnumbered
    \/ RenderTick /\ Unnumbered
    \/ RenderWake /\ Unnumbered

Spec == Init /\ [][Next]_vars

\* The render loop is scheduled whenever its timer has fired, whatever the
\* poller tasks do.
LiveSpec == Init /\ [][Next]_vars /\ WF_vars(RenderLoop /\ Unnumbered)

(***************************************************************************)
(* The program with one Source and its publishes numbered: 0 for the value *)
(* the channel is created with, then 1, 2, .. in the order of the sends.   *)
(***************************************************************************)
\* The step is a tx.send by Source s's poller.
PublishStep(s) ==
    \/ s \in {"bom", "vol"} /\ pc[s] = "run" /\ pc'[s] = "sleep"
    \/ s = "mpd" /\ pc[s] = "query" /\ pc'[s] \in {"sleep", "connect"}

\* The step is main's pass over the tasks, which reads every channel.
ReadStep == rpc = "tick" /\ rpc' = "sleep"

\* The number of the publish whose value a read of s's channel returns: the
\* last publish's when it is the value last sent, 0 when it is the value the
\* channel was created with, an earlier publish's otherwise.
Observed(s) ==
    IF sent[s] = <<>> \/ Status(s) = sent[s][1] THEN count[s]
    ELSE IF Status(s) = Fallback(s) THEN 0
    ELSE count[s] - 1

\* The history of a step; a run is followed for MaxPublishes publishes.
Numbered ==
    /\ \A s \in Sources : PublishStep(s) => count[s] < MaxPublishes
    /\ count' = [s \in Sources |-> IF PublishStep(s) THEN count[s] + 1 ELSE count[s]]
    /\ seen' = [s \in Sources |-> IF ReadStep /\ s \in enabled THEN Observed(s)
                                   ELSE seen[s]]

InitFresh == Init /\ Cardinality(enabled) = 1

NextFresh ==
    \/ WeatherRun /\ Numbered
    \/ WeatherWake /\ Numbered
    \/ VolumeRun /\ Numbered
    \/ VolumeWake /\ Numbered
    \/ MpdConnect /\ Numbered
    \/ MpdQuery(Snapshots) /\ Numbered
    \/ MpdWake /\ Numbered
    \/ RenderStartup /\ Numbered
    \/ RenderTick /\ Numbered
    \/ RenderWake /\ Numbered

SpecFresh == InitFresh /\ [][NextFresh]_vars

(***************************************************************************)
(* The formatter on generated tracks: the media player is in one generated *)
(* state, and stays in it, while the media-player poller queries it.       *)
(***************************************************************************)
\* The name of the i-th artist of a generated track.
ArtistName(i) == <<"N", Digit(i)>>

ArtistLists == {[i \in 1..k |-> ArtistName(i)] : k \in 0..MaxArtists}

AlbumArtistLists == {<<>>, <<<<"V", "a">>>>}

\* The grapheme clusters a generated title's tail is made of: a letter, a
\* space, a letter with a combining accent, a prepended mark with a space.
TailClusters == {<<"x">>, <<" ">>, <<"e", "U+0301">>, <<"U+0600", " ">>}

RECURSIVE Tails(_)
Tails(n) ==
    IF n = 0 THEN {<<>>}
    ELSE Tails(n - 1) \cup {t \o c : t \in Tails(n - 1), c \in TailClusters}

\* n copies of the code point c.
Repeat(c, n) == [i \in 1..n |-> c]

\* Paddings that bring "ARTIST - TITLE" next to NOW_PLAYING_MAX_LEN
\* clusters, of one-byte and of two-byte code points, and the empty one.
Paddings ==
    {Repeat(c, n) : c \in {"x", "U+00E9"},
                    n \in {0} \cup ((NOW_PLAYING_MAX_LEN - 10)..(NOW_PLAYING_MAX_LEN - 4))}

LongTitles == {<<p \o t>> : p \in Paddings, t \in Tails(MaxTail)}

ShortTitles == {<<>>, <<TitleT>>}

Times == {<<<<>>, <<>>>>, <<<<65000>>, <<3661000>>>>, <<<<65000>>, <<>>>>}

\* Tracks with every artist list, album-artist list and playback time.
ArtistSnapshots ==
    {Snapshot("Some", a, b, t, "Ok", e[1], e[2]) :
        a \in ArtistLists, b \in AlbumArtistLists, t \in ShortTitles, e \in Times}

\* Tracks whose "ARTIST - TITLE" is next to NOW_PLAYING_MAX_LEN clusters long.
LongSnapshots ==
    {Snapshot("Some", a, <<>>, t, "Ok", <<>>, <<>>) :
        a \in {<<>>, <<NameA>>}, t \in LongTitles}

\* One track at every whole second of elapsed time up to MaxSeconds.
DurationSnapshots ==
    {Snapshot("Some", <<NameA>>, <<>>, <<TitleT>>, "Ok", <<s * 1000>>, <<3661000>>) :
        s \in 0..MaxSeconds}

FmtSnapshots == ArtistSnapshots \cup LongSnapshots \cup DurationSnapshots \cup Snapshots

InitFmt == Startup /\ enabled = {"mpd"} /\ song \in FmtSnapshots

\* The media player stays in its generated state.
MpdTaskFmt ==
    \/ MpdConnect /\ Unnumbered
    \/ MpdQuery({song}) /\ Unnumbered
    \/ MpdWake /\ Unnumbered

SpecFmt == InitFmt /\ [][MpdTaskFmt]_vars

(***************************************************************************)
(* The claims.                                                             *)
(***************************************************************************)
\* The value the last publish to s's channel left there, by the history.
Published(s) == IF sent[s] = <<>> THEN Fallback(s) ELSE sent[s][1]

\* Where Source s's segment starts in a record built in the current state:
\* after the segments, each with its space, of the enabled Sources before it.
SegmentOffset(s) ==
    LET width(t) == IF t \in enabled THEN Len(chan[t]) + 1 ELSE 0
    IN  CASE s = "mpd" -> 0
          [] s = "vol" -> width("mpd")
          [] s = "bom" -> width("mpd") + width("vol")

\* text holds seg, followed by a space, as Source s's segment.
HasSegment(text, s, seg) ==
    /\ SubSeq(text, SegmentOffset(s) + 1, SegmentOffset(s) + Len(seg)) = seg
    /\ Len(text) > SegmentOffset(s) + Len(seg)
    /\ text[SegmentOffset(s) + Len(seg) + 1] = " "

\* C1: a Source all of whose adapter invocations so far failed (spawn
\* failure, non-zero exit, connect failure) holds its fallback string, and
\* every record the render loop emits shows that fallback as its segment.
C1_AlwaysFailingShowsFallback ==
    [][RenderTick =>
         \A s \in enabled :
            allFailed[s] => chan[s] = Fallback(s) /\ HasSegment(full_text', s, Fallback(s))]_vars

C1_Witness ==
    /\ enabled = Sources
    /\ rpc = "sleep"
    /\ \A s \in Sources : allFailed[s] /\ last[s] = "transport"
    /\ sent["bom"] = <<WEATHER_FALLBACK>>
    /\ sent["vol"] = <<VOL_FALLBACK>>
    /\ full_text = MPD_FALLBACK \o <<" ">> \o VOL_FALLBACK \o <<" ">>
                   \o WEATHER_FALLBACK \o <<" ">> \o DateTime(0)

\* C2: in every state, a read of a Source's channel (Taskmaster::status)
\* returns the value of the most recent publish, or the fallback the channel
\* was created with when nothing has been published.
C2_ReadReturnsLatestPublish ==
    \A s \in enabled :
        Status(s) = Published(s)

C2_Witness ==
    /\ rpc = "sleep"
    /\ sent["vol"] = <<<<"U+1F507", " ", "4", "5", "%">>>>
    /\ sent["bom"] = <<WEATHER_FALLBACK>> /\ last["bom"] = "transport" /\ ~allFailed["bom"]
    /\ sent["mpd"] = <<>> /\ pc["mpd"] = "retry"
    /\ HasSegment(full_text, "vol", <<"U+1F507", " ", "4", "5", "%">>)

\* C3: every enabled Source's poller task is still running its poll loop,
\* whatever its adapter returned.
C3_PollerNeverTerminates == \A s \in enabled : pc[s] # "done"

\* C4: whenever the most recent adapter invocation of a Source ended in a
\* failure (transport or decode), the Source's channel holds its fallback.
C4_FailedSourceHoldsFallback ==
    \A s \in enabled : last[s] \in {"transport", "decode"} => chan[s] = Fallback(s)

\* C5: the render loop can always take its next step, whatever the pollers
\* do, and under fairness of the render loop alone it emits a record
\* infinitely often.
C5_RenderLoopKeepsEmitting ==
    /\ [](ENABLED RenderLoop)
    /\ []<><<RenderTick>>_vars

C5_Witness ==
    /\ enabled = Sources
    /\ rpc = "sleep"
    /\ Len(stdout) >= 3
    /\ pc["bom"] = "done"
    /\ pc["vol"] = "run" /\ last["vol"] = "none"
    /\ pc["mpd"] = "retry" /\ allFailed["mpd"]

\* A step leaves everything but Source s's own channel and task unchanged.
OthersUnchanged(s) ==
    /\ \A t \in Sources \ {s} : chan'[t] = chan[t] /\ pc'[t] = pc[t]
    /\ UNCHANGED <<rpc, full_text, stdout>>

\* C6: a step of one Source's poller (every such step moves that poller's
\* control state), its failures and its termination included, leaves every
\* other Source's channel value, every other poller's control state and the
\* render loop's state unchanged.
C6_FailuresAreContained ==
    [][\A s \in Sources : pc'[s] # pc[s] => OthersUnchanged(s)]_vars

C6_Witness ==
    /\ enabled = Sources
    /\ pc["vol"] = "done"
    /\ pc["mpd"] = "done"
    /\ pc["bom"] = "sleep" /\ chan["bom"] # WEATHER_FALLBACK
    /\ rpc = "sleep"

\* The segment an enabled Source contributes to a record: its channel's
\* value and one space; a disabled Source contributes nothing.
SegmentOf(s) == IF s \in enabled THEN chan[s] \o <<" ">> ELSE <<>>

\* C7: the text of every emitted record is the values of the enabled Sources
\* in the order media player, volume, weather, each followed by one space,
\* then the timestamp rendering; with no Source enabled it is the timestamp
\* rendering alone.
C7_RecordText ==
    [][RenderTick =>
         \E now \in 0..MaxClock :
            /\ full_text' = SegmentOf("mpd") \o SegmentOf("vol") \o SegmentOf("bom")
                            \o DateTime(now)
            /\ enabled = {} => full_text' = DateTime(now)]_vars

C7_Witness ==
    /\ enabled = {"mpd", "bom"}
    /\ rpc = "sleep"
    /\ chan["mpd"] # MPD_FALLBACK
    /\ chan["bom"] # WEATHER_FALLBACK
    /\ full_text = chan["mpd"] \o <<" ">> \o chan["bom"] \o <<" ">> \o DateTime(MaxClock)

\* The recorded output is a header line, then an opening bracket line, then
\* record lines only.
StreamShape ==
    /\ \A i \in 1..Len(stdout) :
          stdout[i].kind = (IF i = 1 THEN "header" ELSE IF i = 2 THEN "[" ELSE "record")
    /\ rpc = "startup" <=> stdout = <<>>

\* C8: the output is one header line, one opening bracket line, then record
\* lines only; once streaming, the render loop never returns to STARTUP and
\* writes nothing but records.
C8_StreamShape ==
    /\ []StreamShape
    /\ [][rpc # "startup" =>
            /\ rpc' # "startup"
            /\ stdout' \in {stdout, Append(stdout, RecordLine)}]_vars

C8_Witness ==
    /\ Len(stdout) = MaxLines
    /\ rpc = "tick"
    /\ stdout[1] = HeaderLine /\ stdout[2] = OpenBracket /\ stdout[MaxLines] = RecordLine

\* The media-player poller has published the text of the player's track.
TrackPublished == pc["mpd"] = "sleep" /\ song.cur = "Some"

\* The "ARTIST - TITLE" part of a published now-playing text: what stands
\* between the icon with its space and the playback time in parentheses.
PlayingPart(text, snap) == SubSeq(text, 3, Len(text) - Len(PlaybackTime(snap)) - 3)

\* The length in code points of the first n grapheme clusters of s.
ClustersLen(s, n) ==
    CHOOSE k \in 0..Len(s) :
        /\ Cardinality({i \in ClusterStarts(s) : i <= k}) = n
        /\ k = Len(s) \/ (k + 1) \in ClusterStarts(s)

\* C9: a composed string of more than 70 grapheme clusters is cut to its
\* first 70 clusters, stripped of trailing white space and given one
\* ellipsis: at most 71 clusters, cut on a cluster boundary, no white space
\* before the ellipsis; one of at most 70 clusters is returned unchanged.
C9_Truncation ==
    TrackPublished =>
        LET composed == Compose(ArtistText(SelectArtists(song)), TitleOf(song))
            playing == PlayingPart(chan["mpd"], song)
            cut == Len(playing) - 1
        IN  IF ClusterCount(composed) > NOW_PLAYING_MAX_LEN
            THEN /\ playing = TrimEnd(SubSeq(composed, 1,
                                             ClustersLen(composed, NOW_PLAYING_MAX_LEN)))
                              \o <<"U+2026">>
                 /\ ClusterCount(playing) <= NOW_PLAYING_MAX_LEN + 1
                 /\ cut = 0 \/ (cut + 1) \in ClusterStarts(composed)
                 /\ cut = 0 \/ ~IsWhitespace(playing[cut])
            ELSE playing = composed

RECURSIVE CommaJoined(_, _)
CommaJoined(a, k) ==
    IF k = 1 THEN a[1] ELSE CommaJoined(a, k - 1) \o <<",", " ">> \o a[k]

\* The artist text the claim prescribes for a list of artists.
PrescribedArtist(a) ==
    CASE Len(a) = 0 -> <<"?", "?", "?">>
      [] Len(a) = 1 -> a[1]
      [] Len(a) = 2 -> a[1] \o <<" ", "&", " ">> \o a[2]
      [] OTHER -> CommaJoined(a, Len(a))

\* C10: the published text names the selected artists as "???" when there
\* are none, the name itself when there is one, "A & B" when there are two,
\* and the names joined with ", " alone when there are three or more.
C10_ArtistJoining ==
    TrackPublished =>
        chan["mpd"] = FinalText(Truncate(Compose(PrescribedArtist(SelectArtists(song)),
                                                 TitleOf(song))),
                                PlaybackTime(song))

C10_Witness ==
    /\ pc["mpd"] = "sleep"
    /\ song.artists = <<ArtistName(1), ArtistName(2), ArtistName(3)>>
    /\ song.title = <<TitleT>>
    /\ song.elapsed = <<>>
    /\ chan["mpd"] = <<"U+1F3B5", " ", "N", "1", ",", " ", "N", "2", ",", " ", "N", "3",
                       " ", "-", " ", "T", "i", " ", "(", "0", "0", ":", "0", "0", ")">>

\* The now-playing text of snap as it reads when the names come from list.
RenderedFrom(snap, list) ==
    FinalText(Truncate(Compose(ArtistText(list), TitleOf(snap))), PlaybackTime(snap))

\* C11: the published text names the album artists if and only if the track
\* has no artists and has album artists; in every other case, both lists
\* empty and both lists non-empty included, it names the track's artists.
C11_ArtistSelection ==
    TrackPublished =>
        LET album == song.artists = <<>> /\ song.album_artists # <<>>
        IN  /\ album => chan["mpd"] = RenderedFrom(song, song.album_artists)
            /\ ~album => chan["mpd"] = RenderedFrom(song, song.artists)
            /\ song.album_artists # song.artists =>
                  (chan["mpd"] = RenderedFrom(song, song.album_artists) <=> album)

C11_Witness ==
    /\ pc["mpd"] = "sleep"
    /\ song.artists = <<>>
    /\ song.album_artists = <<<<"V", "a">>>>
    /\ song.title = <<TitleT>>
    /\ song.elapsed = <<>>
    /\ chan["mpd"] = <<"U+1F3B5", " ", "V", "a", " ", "-", " ", "T", "i",
                       " ", "(", "0", "0", ":", "0", "0", ")">>

\* The position of the last occurrence of the code point c in text, or 0.
RECURSIVE LastIndexOf(_, _, _)
LastIndexOf(text, c, i) ==
    IF i = 0 THEN 0
    ELSE IF text[i] = c THEN i
    ELSE LastIndexOf(text, c, i - 1)

\* The elapsed time as the published now-playing text shows it: what stands
\* between the last "(" and the last "/".
ShownElapsed(text) ==
    SubSeq(text, LastIndexOf(text, "(", Len(text)) + 1,
                 LastIndexOf(text, "/", Len(text)) - 1)

\* The number a text of decimal digits denotes, -1 when it is not one.
DigitValue(c) ==
    IF \E d \in 0..9 : Digit(d) = c THEN CHOOSE d \in 0..9 : Digit(d) = c ELSE -1

RECURSIVE NumberOf(_)
NumberOf(digits) ==
    IF digits = <<>> THEN -1
    ELSE IF DigitValue(digits[Len(digits)]) < 0 THEN -1
    ELSE IF Len(digits) = 1 THEN DigitValue(digits[1])
    ELSE LET front == NumberOf(SubSeq(digits, 1, Len(digits) - 1))
         IN  IF front < 0 THEN -1 ELSE front * 10 + DigitValue(digits[Len(digits)])

\* The media-player poller has published a text with an elapsed time.
ElapsedPublished ==
    TrackPublished /\ song.elapsed # <<>> /\ song.elapsed[1] % 1000 = 0

\* shown is MINUTES:SECONDS for s seconds, the minutes not wrapped, the
\* seconds of two digits and the minutes of at least two, zero padded.
RendersSeconds(shown, s) ==
    LET colon == Len(shown) - 2
        mins == SubSeq(shown, 1, colon - 1)
        secs == SubSeq(shown, colon + 1, Len(shown))
    IN  /\ colon >= 3
        /\ shown[colon] = ":"
        /\ NumberOf(mins) = s \div 60
        /\ NumberOf(secs) = s % 60
        /\ Len(mins) = 2 \/ mins[1] # "0"

\* C12 as stated: every whole number of seconds is shown as two-digit
\* minutes (seconds div 60), a colon and two-digit seconds (seconds mod 60).
C12_TwoDigitMinutes ==
    ElapsedPublished =>
        /\ RendersSeconds(ShownElapsed(chan["mpd"]), song.elapsed[1] \div 1000)
        /\ Len(ShownElapsed(chan["mpd"])) = 5

\* C12, amended: every whole number of seconds is shown as the minutes
\* (seconds div 60, not wrapped to hours) in at least two digits, zero
\* padded below ten, a colon, and the seconds (seconds mod 60) in two
\* digits; the minutes take exactly two digits below 100 minutes.
C12_DurationFormat ==
    ElapsedPublished =>
        LET shown == ShownElapsed(chan["mpd"])
            s == song.elapsed[1] \div 1000
        IN  /\ RendersSeconds(shown, s)
            /\ s < 6000 => Len(shown) = 5
            /\ s = 65 => shown = <<"0", "1", ":", "0", "5">>
            /\ s = 3661 => shown = <<"6", "1", ":", "0", "1">>

C12_Witness ==
    /\ pc["mpd"] = "sleep"
    /\ song.elapsed = <<6000000>>
    /\ chan["mpd"] = <<"U+1F3B5", " ", "A", "b", " ", "-", " ", "T", "i", " ", "(",
                       "1", "0", "0", ":", "0", "0", "/", "6", "1", ":", "0", "1", ")">>

\* C13: when the media player has no current track, the text the poller
\* publishes is a sentinel distinct from the string it publishes for a
\* failed query (the media-player fallback), and the status answer, the
\* artists, the title and the times play no part in it.
C13_NothingPlayingSentinel ==
    pc["mpd"] = "sleep" /\ song.cur = "None" =>
        /\ chan["mpd"] # MPD_FALLBACK
        /\ \A status \in {"Ok", "Err"}, elapsed \in {<<>>, <<65000>>} :
              get_now_playing(Snapshot("None", <<NameA>>, <<>>, <<TitleT>>,
                                       status, elapsed, <<>>)).text = chan["mpd"]

\* A step is one call of get_now_playing by the media-player poller.
QueryStep == pc["mpd"] = "query" /\ pc'["mpd"] # "query"

\* C14: the poller queries only while it holds a connection it has
\* established; a query that fails publishes the fallback, gives the
\* connection up and leaves the poller at a new connect attempt; a
\* connection is held only from a successful connect attempt on, so no
\* query is ever issued on a connection whose query failed.
C14_ReconnectAfterFailedQuery ==
    /\ [](pc["mpd"] \in {"query", "sleep"} <=> conn)
    /\ [][/\ QueryStep => conn
          /\ QueryStep /\ last'["mpd"] = "transport" =>
                /\ sent'["mpd"] = <<MPD_FALLBACK>> /\ chan'["mpd"] = MPD_FALLBACK
                /\ ~conn'
                /\ pc'["mpd"] = "connect"
          /\ ~conn /\ conn' => pc["mpd"] = "connect" /\ pc'["mpd"] = "query"]_vars

C14_Witness ==
    /\ pc["mpd"] = "connect"
    /\ song.cur = "Err"
    /\ last["mpd"] = "transport" /\ ~allFailed["mpd"]
    /\ sent["mpd"] = <<MPD_FALLBACK>>
    /\ ~conn

\* C15: numbering a channel's publishes in order, 0 for the value it is
\* created with, the publish numbers main's successive reads of the channel
\* return never decrease, whatever the interleaving of sends and reads; a
\* read returns the number of the last publish before it.
C15_MonotonicFreshness ==
    [][ReadStep => \A s \in enabled : seen'[s] >= seen[s] /\ seen'[s] = count[s]]_vars

C15_Witness ==
    /\ enabled = {"bom"}
    /\ rpc = "sleep"
    /\ Len(stdout) = MaxLines
    /\ count["bom"] = MaxPublishes
    /\ seen["bom"] = MaxPublishes
    /\ chan["bom"] = WEATHER_FALLBACK

\* C16: once a poller task has ended it stays ended and its channel keeps
\* the last value published before the end (the fallback it was created
\* with if there was none); the render loop can still take its steps, and
\* every record it emits from then on shows that value as the Source's segment.
C16_EndedTaskChannelReadable ==
    /\ [](\A s \in enabled : pc[s] = "done" =>
              Status(s) = Published(s) /\ ENABLED RenderLoop)
    /\ [][\A s \in enabled : pc[s] = "done" =>
              /\ pc'[s] = "done" /\ chan'[s] = chan[s] /\ sent'[s] = sent[s]
              /\ RenderTick => HasSegment(full_text', s, Published(s))]_vars

C16_Witness ==
    /\ enabled = Sources
    /\ pc["vol"] = "done" /\ sent["vol"] = <<<<"U+1F50A", " ", "4", "5", "%">>>>
    /\ pc["bom"] = "done" /\ sent["bom"] = <<>>
    /\ pc["mpd"] = "sleep"
    /\ rpc = "sleep"
    /\ Len(stdout) = MaxLines
    /\ HasSegment(full_text, "vol", <<"U+1F50A", " ", "4", "5", "%">>)
    /\ HasSegment(full_text, "bom", WEATHER_FALLBACK)

\* The step is an adapter failure of Source s: a subprocess that could not
\* be run or exited with a failure status, a connect attempt that failed, a
\* query that failed on the connection.
FailureStep(s) ==
    /\ last'[s] = "transport"
    /\ \/ pc[s] = "run" /\ pc'[s] = "sleep"
       \/ pc[s] = "connect" /\ pc'[s] = "retry"
       \/ pc[s] = "query" /\ pc'[s] = "connect"

\* C17: every adapter failure of every Source writes a line to standard
\* error (recorded while the record of standard error has room) and leaves
\* the Source's channel holding the fallback.
C17_FailuresAreReported ==
    [][\A s \in enabled :
          FailureStep(s) =>
             /\ chan'[s] = Fallback(s)
             /\ Len(stderr) < MaxErrLines => Len(stderr') = Len(stderr) + 1]_vars

\* How many of the code points of text are c.
Occurrences(text, c) == Cardinality({i \in 1..Len(text) : text[i] = c})

\* The width of the segment of Source s in a record: its value and a space.
SegmentWidth(s) == IF s \in enabled THEN Len(chan[s]) + 1 ELSE 0

\* C18: whenever the render loop is about to build a record its text buffer
\* is empty, and the record it builds holds one segment for each enabled
\* Source, one timestamp after them, and nothing else.
C18_RecordRebuiltEveryTick ==
    /\ [](rpc = "tick" => full_text = <<>>)
    /\ [][RenderTick =>
            /\ \A s \in enabled : HasSegment(full_text', s, chan[s])
            /\ Len(full_text') = SegmentWidth("mpd") + SegmentWidth("vol")
                                 + SegmentWidth("bom") + Len(DateTime(0))
            /\ Occurrences(full_text', "U+1F5D3") = 1
            /\ Occurrences(full_text', "U+1F55B") = 1]_vars

C18_Witness ==
    /\ enabled = {"vol", "bom"}
    /\ rpc = "sleep"
    /\ Len(stdout) = MaxLines
    /\ chan["vol"] = <<"U+1F50A", " ", "4", "5", "%">>
    /\ chan["bom"] = <<"2", "1", "U+00B0", "C">>
    /\ full_text = chan["vol"] \o <<" ">> \o chan["bom"] \o <<" ">> \o DateTime(0)

\* C19: whenever the media-player poller holds no established connection
\* its channel holds the media-player fallback; a value other than the
\* fallback is current only while the poller is in its inner query loop.
C19_NoConnectionMeansFallback ==
    "mpd" \in enabled =>
        /\ ~conn => chan["mpd"] = MPD_FALLBACK
        /\ chan["mpd"] # MPD_FALLBACK => pc["mpd"] \in {"query", "sleep"}

\* C20: the Receiver of every enabled Source's channel is alive in every
\* state, every publish a poller attempts goes through to the channel, and
\* a poller task that has ended did not end on a send: its last adapter
\* invocation ended in a decode failure.
C20_PublishNeverFails ==
    /\ [](\A s \in enabled : s \in Receivers /\ (pc[s] = "done" => last[s] = "decode"))
    /\ [][\A s \in enabled :
            pc'[s] # pc[s] /\ last'[s] \in {"transport", "ok"}
            /\ pc[s] \in {"run", "query"} =>
                pc'[s] # "done" /\ sent'[s] # <<>> /\ chan'[s] = sent'[s][1]]_vars

C20_Witness ==
    /\ enabled = Sources
    /\ rpc = "tick"
    /\ Len(stdout) = MaxLines
    /\ pc["bom"] = "sleep" /\ sent["bom"] = <<<<"2", "1", "U+00B0", "C">>>>
    /\ pc["mpd"] = "connect" /\ sent["mpd"] = <<MPD_FALLBACK>>
    /\ pc["vol"] = "done" /\ last["vol"] = "decode"

=============================================================================
